---------------------------- MODULE Spec2Model ----------------------------
(***************************************************************************)
(* Model of the jackpot program (programs/jackpot/src/lib.rs): one Pot     *)
(* account, the instruction handlers that act on it, the lamport           *)
(* balances the handlers move, and the clock sysvar.                       *)
(*                                                                         *)
(* One action per instruction.  An instruction is a transaction step: a    *)
(* handler that returns Err commits nothing (the account is not written    *)
(* back and the lamport changes of its CPIs are discarded), so a failed    *)
(* call changes only `res`, the outcome the caller sees.                   *)
(***************************************************************************)
EXTENDS Integers, Sequences, FiniteSets, TLC

VARIABLES
  pot,        \* the Pot account's data (struct Pot)
  lamports,   \* lamport balance of every account
  clock,      \* Clock::get()?.unix_timestamp
  res,        \* outcome of the last instruction
  split       \* the locals of the payout computation, over the whole u64 range

vars == <<pot, lamports, clock, res, split>>

-----------------------------------------------------------------------------
(* Program constants *)

BUYBACK_ADDY == "4o91wiYAsmtnpHbyaobF9q1vmswhY8kKKoSej8qtkRqv"
FEE_ADDY == "A3VipY34fosfdigEx4dDHjdwaaj1AnwrNgjbbGZuL7Y9"
ACTIVE_DURATION == 120
COOLDOWN_DURATION == 360
MIN_DEPOSIT == 50000000
WINNER_PERMILLE == 969
BUYBACK_PERMILLE == 25
FEE_PERMILLE == 5
CALLER_PERMILLE == 1
PERMILLE == 1000
POT_SPACE == 10240

\* Rent-exempt minimum of an account of POT_SPACE bytes, which `init` makes the
\* payer fund: (128 + space) * 3480 lamports per byte-year * 2 years.
RentExemptMinimum == (128 + POT_SPACE) * 6960

-----------------------------------------------------------------------------
(* Bounds of the model *)

MaxDeposits == 2       \* deposit records per round
MaxTime == 600         \* the clock stops here

\* The pot PDA, the keys that sign instructions, and a key that is neither
\* of the two hardcoded addresses.
POT == "pot"
InitAdmin == "admin"
STRANGER == "stranger"
Depositors == {"alice", "bob"}     \* who signs deposit
Closers == {"admin", "alice"}      \* who signs end_round
Callers == {"admin", "alice"}      \* who signs start_round and admin_withdraw
Keys == Depositors \cup Closers \cup Callers \cup {BUYBACK_ADDY, FEE_ADDY, STRANGER}
Accounts == Keys \cup {POT}

\* Lamports each account starts with: the pot holds its rent-exempt minimum,
\* alice can pay two deposits, bob one, the others none.
InitialFunds == [k \in Accounts |->
                  IF k = POT THEN RentExemptMinimum
                  ELSE IF k = "alice" THEN 2 * MIN_DEPOSIT + 777
                  ELSE IF k = "bob" THEN MIN_DEPOSIT
                  ELSE 0]

\* Deposit amounts tried: just below the minimum, the minimum, and one whose
\* per-mille shares all truncate.
Amounts == {MIN_DEPOSIT - 1, MIN_DEPOSIT, MIN_DEPOSIT + 777}

\* Seconds by which the clock advances between instructions.
TickSteps == {120, 240}

\* First byte of the SHA-256 digest: any byte.
DigestBytes == {0, 1, 2, 255}

-----------------------------------------------------------------------------
(* Option<T> *)

None == <<>>
Some(v) == <<v>>
is_some(o) == o # None
is_none(o) == o = None
unwrap(o) == o[1]

-----------------------------------------------------------------------------
(* u64 arithmetic.  A u64 is four 16-bit limbs, least significant first, so  *)
(* that products of the whole 64-bit range are computed exactly.             *)

LIMB == 65536

ToU64(n) == <<n % LIMB, (n \div LIMB) % LIMB, ((n \div LIMB) \div LIMB) % LIMB, 0>>

\* Defined for values below 2^31.
FromU64(x) == x[1] + LIMB * x[2]

\* x * k for a small k: the low 64 bits of the product, and whether bits were lost.
U64Mul(x, k) ==
  LET p1 == x[1] * k
      p2 == x[2] * k + (p1 \div LIMB)
      p3 == x[3] * k + (p2 \div LIMB)
      p4 == x[4] * k + (p3 \div LIMB)
  IN  [val |-> <<p1 % LIMB, p2 % LIMB, p3 % LIMB, p4 % LIMB>>,
       overflow |-> (p4 \div LIMB) > 0]

\* x / d for a small d > 0 (truncating).
U64Div(x, d) ==
  LET r4 == x[4]
      r3 == (r4 % d) * LIMB + x[3]
      r2 == (r3 % d) * LIMB + x[2]
      r1 == (r2 % d) * LIMB + x[1]
  IN  <<r1 \div d, r2 \div d, r3 \div d, r4 \div d>>

U64Add(x, y) ==
  LET s1 == x[1] + y[1]
      s2 == x[2] + y[2] + (s1 \div LIMB)
      s3 == x[3] + y[3] + (s2 \div LIMB)
      s4 == x[4] + y[4] + (s3 \div LIMB)
  IN  [val |-> <<s1 % LIMB, s2 % LIMB, s3 % LIMB, s4 % LIMB>>,
       overflow |-> (s4 \div LIMB) > 0]

U64Leq(x, y) ==
  \/ x[4] < y[4]
  \/ x[4] = y[4] /\ x[3] < y[3]
  \/ x[4] = y[4] /\ x[3] = y[3] /\ x[2] < y[2]
  \/ x[4] = y[4] /\ x[3] = y[3] /\ x[2] = y[2] /\ x[1] <= y[1]

\* How the build treats u64 overflow in `*`: a panic (overflow-checks on) or a
\* silent wrap (overflow-checks off).  The manifest decides; both are modelled.
OverflowModes == {"checked", "wrapping"}

\* total_amount * permille / 1000
share(total, permille, mode) ==
  LET m == U64Mul(total, permille)
  IN  [panic |-> m.overflow /\ mode = "checked",
       val |-> U64Div(m.val, PERMILLE)]

\* Mutant: the winner takes 97.0% and the closer's bonus comes on top.
payouts_970(total, mode) ==
  LET winner_amount == share(total, 970, mode)
      buyback_amount == share(total, BUYBACK_PERMILLE, mode)
      fee_amount == share(total, FEE_PERMILLE, mode)
      caller_bonus == share(total, CALLER_PERMILLE, mode)
  IN  [panic |-> winner_amount.panic \/ buyback_amount.panic
                   \/ fee_amount.panic \/ caller_bonus.panic,
       amounts |-> <<winner_amount.val, buyback_amount.val,
                     fee_amount.val, caller_bonus.val>>]

\* The four payout amounts of distribute_rewards, in the order of transfer_list.
payouts(total, mode) ==
  LET winner_amount == share(total, WINNER_PERMILLE, mode)
      buyback_amount == share(total, BUYBACK_PERMILLE, mode)
      fee_amount == share(total, FEE_PERMILLE, mode)
      caller_bonus == share(total, CALLER_PERMILLE, mode)
  IN  [panic |-> winner_amount.panic \/ buyback_amount.panic
                   \/ fee_amount.panic \/ caller_bonus.panic,
       amounts |-> <<winner_amount.val, buyback_amount.val,
                     fee_amount.val, caller_bonus.val>>]

\* The builds that can differ on this total: both when a product overflows,
\* otherwise they agree and one stands for both.
ModesFor(total) ==
  IF \E k \in {WINNER_PERMILLE, BUYBACK_PERMILLE, FEE_PERMILLE, CALLER_PERMILLE} :
       U64Mul(total, k).overflow
  THEN OverflowModes
  ELSE {"checked"}

\* Sum of a list of u64 amounts (never overflows for four shares).
RECURSIVE U64Sum(_)
U64Sum(list) ==
  IF list = <<>> THEN ToU64(0)
  ELSE U64Add(Head(list), U64Sum(Tail(list))).val

-----------------------------------------------------------------------------
(* The outcome of a handler *)

\* Ok(()): the account data p and the balances l are committed.  n is the
\* number of transfers made, cpi what became of the transfers attempted.
Ok(p, l, n, cpi) == [err |-> "Ok", pot |-> p, lamports |-> l, xfers |-> n,
                     cpi |-> cpi, undone |-> 0]

\* Err(e) from require! or `?`: the transaction aborts, nothing is committed.
Err(e) == [err |-> e, pot |-> pot, lamports |-> lamports, xfers |-> 0,
           cpi |-> "none", undone |-> 0]

\* Err from a failed invoke_signed, propagated by `?`: the n transfers the call
\* had already made are discarded with it.
ErrCpi(n) == [err |-> "TransferFailed", pot |-> pot, lamports |-> lamports,
              xfers |-> 0, cpi |-> "failed", undone |-> n]

\* system_instruction::transfer through invoke_signed: moves amt from `from` to
\* `to`; fails when the CPI is refused (cpiOk false) or `from` holds too little.
transfer(bal, from, to, amt, cpiOk) ==
  IF cpiOk /\ bal[from] >= amt
  THEN [ok |-> TRUE, bal |-> [bal EXCEPT ![from] = @ - amt, ![to] = @ + amt]]
  ELSE [ok |-> FALSE, bal |-> bal]

\* Mutant: the reset forgets the winner.
ResetPot_keepwinner(now) ==
  [pot EXCEPT !.game_state = "Inactive",
              !.total_amount = 0,
              !.deposits = <<>>,
              !.randomness = None,
              !.end_game_caller = None,
              !.last_reset = now]

\* The round reset every closing path performs.
ResetPot(now) ==
  [pot EXCEPT !.game_state = "Inactive",
              !.total_amount = 0,
              !.deposits = <<>>,
              !.randomness = None,
              !.end_game_caller = None,
              !.winner = None,
              !.last_reset = now]

-----------------------------------------------------------------------------
(* initialize *)

Init ==
  /\ pot = [admin |-> InitAdmin,
            total_amount |-> 0,
            deposits |-> <<>>,
            game_state |-> "Inactive",
            last_reset |-> 0,
            randomness |-> None,
            end_game_caller |-> None,
            winner |-> None]
  /\ lamports = InitialFunds
  /\ clock = 0
  /\ res = [op |-> "initialize", args |-> <<InitAdmin>>, err |-> "Ok", xfers |-> 0,
           cpi |-> "none", undone |-> 0]
  /\ split = [phase |-> "idle"]

\* An instruction's outcome becomes the new state; res keeps the instruction,
\* the keys of the accounts and the arguments it was given, and its result.
Commit(op, args, out) ==
  /\ pot' = out.pot
  /\ lamports' = out.lamports
  /\ res' = [op |-> op, args |-> args, err |-> out.err, xfers |-> out.xfers,
             cpi |-> out.cpi, undone |-> out.undone]
  /\ UNCHANGED <<clock, split>>

-----------------------------------------------------------------------------
(* start_round *)

\* Mutant: the cooldown must be strictly exceeded.
start_round_handler_gt(caller, now) ==
  IF pot.game_state # "Inactive" THEN Err("InvalidState")
  ELSE IF ~(now - pot.last_reset > COOLDOWN_DURATION) THEN Err("CooldownActive")
  ELSE Ok([pot EXCEPT !.game_state = "Active", !.last_reset = now],
          lamports, 0, "none")

\* Mutant: the start time is not recorded.
start_round_handler_nostamp(caller, now) ==
  IF pot.game_state # "Inactive" THEN Err("InvalidState")
  ELSE IF ~(now - pot.last_reset >= COOLDOWN_DURATION) THEN Err("CooldownActive")
  ELSE Ok([pot EXCEPT !.game_state = "Active"], lamports, 0, "none")

start_round_handler(caller, now) ==
  IF pot.game_state # "Inactive" THEN Err("InvalidState")
  ELSE IF ~(now - pot.last_reset >= COOLDOWN_DURATION) THEN Err("CooldownActive")
  ELSE Ok([pot EXCEPT !.game_state = "Active", !.last_reset = now],
          lamports, 0, "none")

start_round(caller) ==
  Commit("start_round", <<caller>>, start_round_handler(caller, clock))

-----------------------------------------------------------------------------
(* deposit *)

DepositRecord(depositor, amount, timestamp) ==
  [depositor |-> depositor, amount |-> amount, timestamp |-> timestamp]

\* Mutant: the minimum has lost a zero.
deposit_check_low(amount) ==
  IF ~(pot.game_state = "Active") THEN "GameInactive"
  ELSE IF ~(amount >= 5000000) THEN "MinDeposit"
  ELSE "Ok"

\* Mutant: only an Inactive round refuses deposits.
deposit_check_cooldown(amount) ==
  IF ~(pot.game_state # "Inactive") THEN "GameInactive"
  ELSE IF ~(amount >= MIN_DEPOSIT) THEN "MinDeposit"
  ELSE "Ok"

\* The two require! of deposit.
deposit_check(amount) ==
  IF ~(pot.game_state = "Active") THEN "GameInactive"
  ELSE IF ~(amount >= MIN_DEPOSIT) THEN "MinDeposit"
  ELSE "Ok"

\* Mutant: total_amount is assigned, not incremented.
deposit_handler_assign(user, amount, now) ==
  IF deposit_check(amount) # "Ok" THEN Err(deposit_check(amount))
  ELSE LET t == transfer(lamports, user, POT, amount, TRUE)
       IN  IF ~t.ok THEN ErrCpi(0)
           ELSE Ok([pot EXCEPT
                      !.deposits = Append(@, DepositRecord(user, amount, now)),
                      !.total_amount = amount],
                   t.bal, 1, "ok")

deposit_handler(user, amount, now) ==
  IF deposit_check(amount) # "Ok" THEN Err(deposit_check(amount))
  ELSE LET t == transfer(lamports, user, POT, amount, TRUE)
       IN  IF ~t.ok THEN ErrCpi(0)
           ELSE Ok([pot EXCEPT
                      !.deposits = Append(@, DepositRecord(user, amount, now)),
                      !.total_amount = @ + amount],
                   t.bal, 1, "ok")

deposit(user, amount) ==
  /\ Len(pot.deposits) < MaxDeposits
  /\ Commit("deposit", <<user, amount>>, deposit_handler(user, amount, clock))

-----------------------------------------------------------------------------
(* end_round *)

\* Mutant: the first depositor always wins.
select_winner_first(byte0) ==
  IF pot.total_amount > 0 /\ pot.deposits # <<>>
  THEN Some(pot.deposits[1].depositor)
  ELSE None

\* The winner end_round stores, given the first byte of the digest.
select_winner(byte0) ==
  IF pot.total_amount > 0 /\ pot.deposits # <<>>
  THEN LET winner_index == byte0 % Len(pot.deposits)
       IN  Some(pot.deposits[winner_index + 1].depositor)
  ELSE None

\* Mutant: the state check is missing.
end_round_handler_nostate(caller, byte0, now) ==
  IF ~(now - pot.last_reset >= ACTIVE_DURATION) THEN Err("CooldownActive")
  ELSE Ok([pot EXCEPT !.randomness = Some(byte0),
                      !.end_game_caller = Some(caller),
                      !.winner = select_winner(byte0),
                      !.game_state = "Cooldown"],
          lamports, 0, "none")

end_round_handler(caller, byte0, now) ==
  IF pot.game_state # "Active" THEN Err("InvalidState")
  ELSE IF ~(now - pot.last_reset >= ACTIVE_DURATION) THEN Err("CooldownActive")
  ELSE Ok([pot EXCEPT !.randomness = Some(byte0),
                      !.end_game_caller = Some(caller),
                      !.winner = select_winner(byte0),
                      !.game_state = "Cooldown"],
          lamports, 0, "none")

end_round(caller, byte0) ==
  Commit("end_round", <<caller>>, end_round_handler(caller, byte0, clock))

-----------------------------------------------------------------------------
(* reset_pot_if_no_winner *)

\* Mutant: the winner check is missing.
reset_pot_if_no_winner_handler_nowinner(now) ==
  IF pot.game_state # "Cooldown" THEN Err("InvalidState")
  ELSE IF ~(pot.total_amount = 0 \/ pot.deposits = <<>>) THEN Err("PotNotEmpty")
  ELSE Ok(ResetPot(now), lamports, 0, "none")

reset_pot_if_no_winner_handler(now) ==
  IF pot.game_state # "Cooldown" THEN Err("InvalidState")
  ELSE IF ~is_none(pot.winner) THEN Err("InvalidWinnerAccount")
  ELSE IF ~(pot.total_amount = 0 \/ pot.deposits = <<>>) THEN Err("PotNotEmpty")
  ELSE Ok(ResetPot(now), lamports, 0, "none")

reset_pot_if_no_winner ==
  Commit("reset_pot_if_no_winner", <<>>, reset_pot_if_no_winner_handler(clock))

-----------------------------------------------------------------------------
(* distribute_rewards *)

\* The `for ... in transfer_list` loop: each transfer is made in turn, and the
\* first one that fails ends the loop with Err (`?`).  failAt is the position
\* of the transfer whose CPI is refused (0: none is).
RECURSIVE run_transfers_from(_, _, _, _)
run_transfers_from(bal, list, i, failAt) ==
  IF i > Len(list) THEN [ok |-> TRUE, bal |-> bal, done |-> Len(list), refused |-> FALSE]
  ELSE LET t == transfer(bal, POT, list[i][1], list[i][2], i # failAt)
       IN  IF ~t.ok THEN [ok |-> FALSE, bal |-> t.bal, done |-> i - 1, refused |-> TRUE]
           ELSE run_transfers_from(t.bal, list, i + 1, failAt)

\* Mutant: the result of invoke_signed is dropped instead of propagated by
\* `?`, so the loop goes on past a failed transfer and ends with Ok.
RECURSIVE swallow_transfers_from(_, _, _, _)
swallow_transfers_from(bal, list, i, failAt) ==
  IF i > Len(list) THEN [ok |-> TRUE, bal |-> bal, done |-> 0, refused |-> FALSE]
  ELSE LET t == transfer(bal, POT, list[i][1], list[i][2], i # failAt)
           rest == swallow_transfers_from(t.bal, list, i + 1, failAt)
       IN  [ok |-> TRUE, bal |-> rest.bal,
            done |-> rest.done + (IF t.ok THEN 1 ELSE 0),
            refused |-> rest.refused \/ ~t.ok]

run_transfers_swallow(bal, list, failAt) ==
  swallow_transfers_from(bal, list, 1, failAt)

run_transfers(bal, list, failAt) == run_transfers_from(bal, list, 1, failAt)

\* #[account(address = ...)] on DistributeRewards.buyback and .fee, checked when
\* the accounts are loaded, before the handler runs.
DistributeRewards_accounts(winner, caller, buyback, fee) ==
  buyback = BUYBACK_ADDY /\ fee = FEE_ADDY

\* Mutant: the closer is not checked.
identity_check_nocaller(winner, caller, buyback, fee) ==
  IF ~(winner = unwrap(pot.winner)) THEN "InvalidWinnerAccount"
  ELSE IF ~(buyback = BUYBACK_ADDY) THEN "InvalidBuybackAccount"
  ELSE IF ~(fee = FEE_ADDY) THEN "InvalidFeeAccount"
  ELSE "Ok"

\* The four require! on the accounts passed in, against the stored winner and
\* closer and the hardcoded addresses.
identity_check(winner, caller, buyback, fee) ==
  IF ~(winner = unwrap(pot.winner)) THEN "InvalidWinnerAccount"
  ELSE IF ~(caller = unwrap(pot.end_game_caller)) THEN "InvalidCallerAccount"
  ELSE IF ~(buyback = BUYBACK_ADDY) THEN "InvalidBuybackAccount"
  ELSE IF ~(fee = FEE_ADDY) THEN "InvalidFeeAccount"
  ELSE "Ok"

distribute_rewards_handler(winner, caller, buyback, fee, failAt, mode, now) ==
  IF ~DistributeRewards_accounts(winner, caller, buyback, fee)
    THEN Err("ConstraintAddress")
  ELSE IF pot.game_state # "Cooldown" THEN Err("InvalidState")
  ELSE IF ~is_some(pot.randomness) THEN Err("RandomnessNotAvailable")
  ELSE IF pot.total_amount = 0 \/ pot.deposits = <<>> \/ is_none(pot.winner)
    THEN Ok(ResetPot(now), lamports, 0, "none")
  ELSE
    LET p == payouts(ToU64(pot.total_amount), mode)
        winner_amount == FromU64(p.amounts[1])
        buyback_amount == FromU64(p.amounts[2])
        fee_amount == FromU64(p.amounts[3])
        caller_bonus == FromU64(p.amounts[4])
        transfer_list == << <<winner, winner_amount>>,
                            <<buyback, buyback_amount>>,
                            <<fee, fee_amount>>,
                            <<caller, caller_bonus>> >>
    IN
    IF p.panic THEN Err("Panic")
    ELSE IF is_none(pot.winner) THEN Ok(ResetPot(now), lamports, 0, "none")
    ELSE IF is_none(pot.end_game_caller) THEN Ok(ResetPot(now), lamports, 0, "none")
    ELSE IF identity_check(winner, caller, buyback, fee) # "Ok"
      THEN Err(identity_check(winner, caller, buyback, fee))
    ELSE LET r == run_transfers(lamports, transfer_list, failAt)
         IN  IF ~r.ok THEN ErrCpi(r.done)
             ELSE Ok(ResetPot(now), r.bal, r.done,
                     IF r.refused THEN "failed" ELSE "ok")

distribute_rewards(winner, caller, buyback, fee, failAt, mode) ==
  Commit("distribute_rewards", <<winner, caller, buyback, fee>>,
         distribute_rewards_handler(winner, caller, buyback, fee, failAt, mode, clock))

-----------------------------------------------------------------------------
(* admin_withdraw *)

\* #[account(address = ...)] on AdminWithdraw.fee.
AdminWithdraw_accounts(admin, fee) == fee = FEE_ADDY

\* Mutant: the state check is missing.
admin_withdraw_handler_nostate(admin, fee, cpiOk) ==
  IF ~AdminWithdraw_accounts(admin, fee) THEN Err("ConstraintAddress")
  ELSE
    LET pot_lamports == lamports[POT]
        cleared == [pot EXCEPT !.total_amount = 0, !.deposits = <<>>]
    IN  IF pot_lamports > 0
        THEN LET t == transfer(lamports, POT, FEE_ADDY, pot_lamports, cpiOk)
             IN  IF ~t.ok THEN ErrCpi(0) ELSE Ok(cleared, t.bal, 1, "ok")
        ELSE Ok(cleared, lamports, 0, "none")

\* Mutant: the three assignments commented out at the end of admin_withdraw
\* are made.
admin_withdraw_handler_clearall(admin, fee, cpiOk) ==
  IF ~AdminWithdraw_accounts(admin, fee) THEN Err("ConstraintAddress")
  ELSE IF ~(pot.game_state # "Active") THEN Err("CannotWithdrawDuringActive")
  ELSE
    LET pot_lamports == lamports[POT]
        cleared == [pot EXCEPT !.total_amount = 0, !.deposits = <<>>,
                               !.randomness = None, !.end_game_caller = None,
                               !.winner = None]
    IN  IF pot_lamports > 0
        THEN LET t == transfer(lamports, POT, FEE_ADDY, pot_lamports, cpiOk)
             IN  IF ~t.ok THEN ErrCpi(0) ELSE Ok(cleared, t.bal, 1, "ok")
        ELSE Ok(cleared, lamports, 0, "none")

\* Mutant: the pot is drained but total_amount is kept.
admin_withdraw_handler_keeptotal(admin, fee, cpiOk) ==
  IF ~AdminWithdraw_accounts(admin, fee) THEN Err("ConstraintAddress")
  ELSE IF ~(pot.game_state # "Active") THEN Err("CannotWithdrawDuringActive")
  ELSE
    LET pot_lamports == lamports[POT]
        cleared == [pot EXCEPT !.deposits = <<>>]
    IN  IF pot_lamports > 0
        THEN LET t == transfer(lamports, POT, FEE_ADDY, pot_lamports, cpiOk)
             IN  IF ~t.ok THEN ErrCpi(0) ELSE Ok(cleared, t.bal, 1, "ok")
        ELSE Ok(cleared, lamports, 0, "none")

admin_withdraw_handler(admin, fee, cpiOk) ==
  IF ~AdminWithdraw_accounts(admin, fee) THEN Err("ConstraintAddress")
  ELSE IF ~(pot.game_state # "Active") THEN Err("CannotWithdrawDuringActive")
  ELSE
    LET pot_lamports == lamports[POT]
        cleared == [pot EXCEPT !.total_amount = 0, !.deposits = <<>>]
    IN  IF pot_lamports > 0
        THEN LET t == transfer(lamports, POT, FEE_ADDY, pot_lamports, cpiOk)
             IN  IF ~t.ok THEN ErrCpi(0) ELSE Ok(cleared, t.bal, 1, "ok")
        ELSE Ok(cleared, lamports, 0, "none")

admin_withdraw(admin, fee, cpiOk) ==
  Commit("admin_withdraw", <<admin, fee>>, admin_withdraw_handler(admin, fee, cpiOk))

-----------------------------------------------------------------------------
(* The clock *)

Tick(d) ==
  /\ clock + d <= MaxTime
  /\ clock' = clock + d
  /\ res' = [op |-> "none", args |-> <<>>, err |-> "Ok", xfers |-> 0,
             cpi |-> "none", undone |-> 0]
  /\ UNCHANGED <<pot, lamports, split>>

-----------------------------------------------------------------------------
(* The program *)

Next ==
  \/ \E d \in TickSteps : Tick(d)
  \/ \E caller \in Callers : start_round(caller)
  \/ \E user \in Depositors, amount \in Amounts : deposit(user, amount)
  \/ \E caller \in Closers, byte0 \in DigestBytes : end_round(caller, byte0)
  \/ reset_pot_if_no_winner
  \/ \E winner \in Depositors, caller \in Closers,
        buyback \in {BUYBACK_ADDY, STRANGER}, fee \in {FEE_ADDY, STRANGER},
        failAt \in 0 .. 4, mode \in ModesFor(ToU64(pot.total_amount)) :
       distribute_rewards(winner, caller, buyback, fee, failAt, mode)
  \/ \E admin \in Callers, fee \in {FEE_ADDY, STRANGER}, cpiOk \in BOOLEAN :
       admin_withdraw(admin, fee, cpiOk)

Spec == Init /\ [][Next]_vars

-----------------------------------------------------------------------------
(* The payout computation alone, over the u64 range *)

\* 2^64 / 969, 2^64 / 25 and 2^64 / 5, where the products start to overflow,
\* each with its successor, and the largest u64.
BoundaryTotals ==
  { <<38009, 51806, 41458, 67>>, <<38010, 51806, 41458, 67>>,
    <<15728, 55050, 28835, 2621>>, <<15729, 55050, 28835, 2621>>,
    <<13107, 13107, 13107, 13107>>, <<13108, 13107, 13107, 13107>>,
    <<65535, 65535, 65535, 65535>> }

SampleTotals ==
  { <<a, b, c, d>> : a \in {0, 1, 999, 65535}, b \in {0, 65535},
                     c \in {0, 41458, 65535}, d \in {0, 67, 2621, 65535} }

InitSplit ==
  /\ pot = [admin |-> InitAdmin, total_amount |-> 0, deposits |-> <<>>,
            game_state |-> "Inactive", last_reset |-> 0, randomness |-> None,
            end_game_caller |-> None, winner |-> None]
  /\ lamports = InitialFunds
  /\ clock = 0
  /\ res = [op |-> "initialize", args |-> <<InitAdmin>>, err |-> "Ok", xfers |-> 0,
           cpi |-> "none", undone |-> 0]
  /\ \E t \in BoundaryTotals \cup SampleTotals :
       split = [phase |-> "input", total_amount |-> t]

\* Lines 181-185 and 240-245 on split.total_amount.
compute_split(mode) ==
  /\ split.phase = "input"
  /\ LET p == payouts(split.total_amount, mode)
     IN  split' = IF p.panic
                  THEN [phase |-> "panic", total_amount |-> split.total_amount]
                  ELSE [phase |-> "done", total_amount |-> split.total_amount,
                        transfer_list |-> p.amounts]
  /\ UNCHANGED <<pot, lamports, clock, res>>

NextSplit == \E mode \in OverflowModes : compute_split(mode)

SpecSplit == InitSplit /\ [][NextSplit]_vars

-----------------------------------------------------------------------------
(* Properties *)

RECURSIVE SumAmounts(_)
SumAmounts(records) ==
  IF records = <<>> THEN 0
  ELSE Head(records).amount + SumAmounts(Tail(records))

\* C1: game_state changes only along Inactive -> Active -> Cooldown -> Inactive;
\* no instruction skips or reverses a step.
C1_CyclicTransitions ==
  [][pot'.game_state # pot.game_state =>
       <<pot.game_state, pot'.game_state>> \in
         { <<"Inactive", "Active">>, <<"Active", "Cooldown">>,
           <<"Cooldown", "Inactive">> }]_vars

\* A round has gone all the way round: a paying distribution closed it.
C1_Witness ==
  /\ res.op = "distribute_rewards" /\ res.err = "Ok" /\ res.xfers = 4
  /\ pot.game_state = "Inactive"

\* C2: in every reachable state total_amount is the sum of the amounts of the
\* records in deposits.
C2_TotalIsSum == pot.total_amount = SumAmounts(pot.deposits)

\* Two deposits are on the ledger.
C2_Witness ==
  /\ res.op = "deposit" /\ res.err = "Ok"
  /\ Len(pot.deposits) = 2
  /\ pot.total_amount = 2 * MIN_DEPOSIT + 777

\* The step is a call of instruction op.
Called(op) == res'.op = op

\* The step moved no lamports.
NoTransfer == res'.xfers = 0 /\ lamports' = lamports

\* C3: start_round and admin_withdraw succeed only for the admin stored at
\* initialize; from any other caller they fail and change neither the Pot nor
\* any balance.
C3_OnlyAuthority ==
  [][(Called("start_round") \/ Called("admin_withdraw"))
       /\ res'.args[1] # pot.admin
     => res'.err # "Ok" /\ UNCHANGED <<pot, lamports>>]_vars

\* C4: an instruction that fails, by a require! or by a failed transfer (also
\* one that fails after earlier transfers of the same call were made), leaves
\* the Pot and every balance as they were.
C4_FailureChangesNothing ==
  [][res'.err # "Ok" \/ res'.cpi = "failed" => UNCHANGED <<pot, lamports>>]_vars

\* distribute_rewards failed at its third transfer: the round is still in
\* Cooldown with its ledger, winner and closer.
C4_Witness ==
  /\ res.op = "distribute_rewards" /\ res.err = "TransferFailed" /\ res.undone = 2
  /\ pot.game_state = "Cooldown"
  /\ pot.deposits # <<>> /\ pot.total_amount > 0
  /\ is_some(pot.randomness) /\ is_some(pot.winner) /\ is_some(pot.end_game_caller)

\* distribute_rewards is in its paying branch: Cooldown, randomness present,
\* a non-empty ledger and a winner.
Paying ==
  /\ pot.game_state = "Cooldown"
  /\ is_some(pot.randomness)
  /\ pot.total_amount > 0 /\ pot.deposits # <<>> /\ is_some(pot.winner)

C6_ReserveFloor ==
  [][Called("distribute_rewards") =>
       /\ Paying /\ pot.total_amount < RentExemptMinimum
            /\ res'.args[3] = BUYBACK_ADDY /\ res'.args[4] = FEE_ADDY
            => res'.err = "InsufficientFundsForRent" /\ NoTransfer
       /\ res'.err = "Ok" /\ res'.xfers > 0
            => lamports[POT] - lamports'[POT] <= pot.total_amount - RentExemptMinimum
       /\ res'.err = "Ok" /\ res'.xfers > 0
            => lamports'[POT] >= RentExemptMinimum]_vars

\* C7: a successful admin_withdraw sends the fee address what the Pot holds
\* above the reserve floor, nothing when it holds no more than the floor, and
\* leaves the floor behind.
C7_DrainsExcessOnly ==
  [][Called("admin_withdraw") /\ res'.err = "Ok" =>
       LET excess == IF lamports[POT] > RentExemptMinimum
                     THEN lamports[POT] - RentExemptMinimum ELSE 0
       IN  /\ lamports'[FEE_ADDY] = lamports[FEE_ADDY] + excess
           /\ lamports'[POT] = lamports[POT] - excess
           /\ excess = 0 => res'.xfers = 0]_vars

\* C8: over the u64 range, the four shares sum to at most the amount split;
\* what is left over is in no transfer.
C8_SharesWithinTotal ==
  split.phase = "done" =>
    /\ Len(split.transfer_list) = 4
    /\ U64Leq(U64Sum(split.transfer_list), split.total_amount)

\* A total above 2^48 was split and something was left over.
C8_Witness ==
  /\ split.phase = "done"
  /\ split.total_amount[4] > 0
  /\ U64Sum(split.transfer_list) # split.total_amount

\* C9: after a successful end_round, with a non-empty ledger the index
\* digest[0] mod len(deposits) is in range and winner is the depositor of that
\* record; with an empty ledger winner is None.
C9_WinnerIndex ==
  res.op = "end_round" /\ res.err = "Ok" =>
    IF pot.deposits # <<>>
    THEN LET winner_index == unwrap(pot.randomness) % Len(pot.deposits)
         IN  /\ winner_index \in 0 .. (Len(pot.deposits) - 1)
             /\ pot.winner = Some(pot.deposits[winner_index + 1].depositor)
    ELSE pot.winner = None

\* The second of two different depositors was selected.
C9_Witness ==
  /\ res.op = "end_round" /\ res.err = "Ok"
  /\ Len(pot.deposits) = 2
  /\ pot.deposits[1].depositor # pot.deposits[2].depositor
  /\ pot.winner = Some(pot.deposits[2].depositor)

\* C10 as stated: in every round state a deposit below MIN_DEPOSIT fails with
\* MinDeposit and changes nothing.
C10_MinDepositAlways ==
  [][Called("deposit") /\ res'.args[2] < MIN_DEPOSIT
     => res'.err = "MinDeposit" /\ NoTransfer /\ UNCHANGED pot]_vars

\* C10 amended: a deposit below MIN_DEPOSIT fails in every round state, with
\* MinDeposit while the round is Active and with GameInactive otherwise, and
\* changes nothing.
C10_MinDeposit ==
  [][Called("deposit") /\ res'.args[2] < MIN_DEPOSIT
     => /\ res'.err = IF pot.game_state = "Active" THEN "MinDeposit"
                      ELSE "GameInactive"
        /\ NoTransfer /\ UNCHANGED pot]_vars

\* A deposit below the minimum was refused during an Active round.
C10_Witness ==
  /\ res.op = "deposit" /\ res.err = "MinDeposit"
  /\ res.args[2] < MIN_DEPOSIT
  /\ pot.game_state = "Active"

\* C11: deposit succeeds only in an Active round; in Inactive and in Cooldown
\* it fails with GameInactive, moves no lamports and appends no record, so the
\* ledger is non-empty only in Active or Cooldown.
C11_DepositOnlyActive ==
  [][/\ Called("deposit") /\ pot.game_state # "Active"
          => res'.err = "GameInactive" /\ NoTransfer /\ UNCHANGED pot
     /\ Called("deposit") /\ res'.err = "Ok"
          => pot.game_state = "Active" /\ Len(pot'.deposits) = Len(pot.deposits) + 1
     /\ Len(pot'.deposits) > Len(pot.deposits) => Called("deposit")
     /\ pot'.deposits # <<>> => pot'.game_state \in {"Active", "Cooldown"}]_vars

\* A deposit of a valid amount was refused in Cooldown.
C11_Witness ==
  /\ res.op = "deposit" /\ res.err = "GameInactive"
  /\ res.args[2] >= MIN_DEPOSIT
  /\ pot.game_state = "Cooldown"

\* C12: the timing gates are minimum intervals from last_reset: end_round in
\* Active fails with CooldownActive before ACTIVE_DURATION has passed,
\* start_round in Inactive before COOLDOWN_DURATION has, the state staying as
\* it was; from then on the call is accepted, however late.
C12_TimingGates ==
  [][/\ Called("end_round") /\ pot.game_state = "Active" =>
          IF clock - pot.last_reset < ACTIVE_DURATION
          THEN res'.err = "CooldownActive" /\ pot' = pot
          ELSE res'.err = "Ok" /\ pot'.game_state = "Cooldown"
     /\ Called("start_round") /\ pot.game_state = "Inactive" =>
          IF clock - pot.last_reset < COOLDOWN_DURATION
          THEN res'.err = "CooldownActive" /\ pot' = pot
          ELSE res'.err = "Ok" /\ pot'.game_state = "Active"]_vars

\* end_round was accepted well after the active window had passed.
C12_Witness ==
  /\ res.op = "end_round" /\ res.err = "Ok"
  /\ pot.game_state = "Cooldown"
  /\ clock - pot.last_reset > ACTIVE_DURATION

\* The Pot after a round reset at the current time: Inactive, nothing on the
\* ledger, no randomness, winner or closer.
IsReset(p) ==
  /\ p.game_state = "Inactive"
  /\ p.deposits = <<>> /\ p.total_amount = 0
  /\ p.randomness = None /\ p.winner = None /\ p.end_game_caller = None
  /\ p.last_reset = clock
  /\ p.admin = pot.admin

\* C13: every successful distribute_rewards, on either branch, leaves the Pot
\* reset with last_reset = now; on the empty-round branch (total_amount 0, empty
\* ledger or no winner) it makes no transfer.
C13_DistributeResets ==
  [][Called("distribute_rewards") /\ res'.err = "Ok" =>
       /\ IsReset(pot')
       /\ (pot.total_amount = 0 \/ pot.deposits = <<>> \/ pot.winner = None)
            => NoTransfer
       /\ ~(pot.total_amount = 0 \/ pot.deposits = <<>> \/ pot.winner = None)
            => res'.xfers = 4]_vars

\* A round closed by distribute_rewards without a transfer.
C13_Witness ==
  /\ res.op = "distribute_rewards" /\ res.err = "Ok" /\ res.xfers = 0
  /\ pot.game_state = "Inactive" /\ pot.last_reset = clock /\ clock > 0
  /\ lamports = InitialFunds

\* C14: in an Active round admin_withdraw fails and changes neither the Pot's
\* balance nor its ledger and total; the error is CannotWithdrawDuringActive
\* whenever the handler runs (the fee account is the hardcoded one; any other
\* account is rejected with ConstraintAddress before the handler).  No step
\* taken in an Active round lowers the Pot's balance.
C14_ActiveBlocksWithdraw ==
  [][/\ Called("admin_withdraw") /\ pot.game_state = "Active"
          => /\ res'.err = IF res'.args[2] = FEE_ADDY
                           THEN "CannotWithdrawDuringActive"
                           ELSE "ConstraintAddress"
             /\ NoTransfer /\ UNCHANGED pot
     /\ pot.game_state = "Active" => lamports'[POT] >= lamports[POT]]_vars

\* admin_withdraw was refused while the round held a deposit.
C14_Witness ==
  /\ res.op = "admin_withdraw" /\ res.err = "CannotWithdrawDuringActive"
  /\ pot.game_state = "Active"
  /\ pot.deposits # <<>>

\* C15: randomness is present exactly when the round is in Cooldown.
C15_RandomnessIffCooldown ==
  is_some(pot.randomness) <=> pot.game_state = "Cooldown"

\* admin_withdraw succeeded in Cooldown and the randomness is still there.
C15_Witness ==
  /\ res.op = "admin_withdraw" /\ res.err = "Ok"
  /\ pot.game_state = "Cooldown"
  /\ is_some(pot.randomness)

\* C16: reset_pot_if_no_winner succeeds only from Cooldown with no winner and
\* an empty ledger; otherwise it fails with InvalidState (not Cooldown),
\* InvalidWinnerAccount (winner set) or PotNotEmpty (ledger not empty), the
\* first that applies, and changes nothing.  On success it makes no transfer
\* and leaves the Pot reset with last_reset = now.
C16_ResetIfNoWinner ==
  [][Called("reset_pot_if_no_winner") =>
       /\ res'.err = IF pot.game_state # "Cooldown" THEN "InvalidState"
                     ELSE IF is_some(pot.winner) THEN "InvalidWinnerAccount"
                     ELSE IF pot.deposits # <<>> THEN "PotNotEmpty"
                     ELSE "Ok"
       /\ NoTransfer
       /\ res'.err # "Ok" => UNCHANGED pot
       /\ res'.err = "Ok" => IsReset(pot')]_vars

\* reset_pot_if_no_winner closed a round that had no winner.
C16_Witness ==
  /\ res.op = "reset_pot_if_no_winner" /\ res.err = "Ok"
  /\ pot.game_state = "Inactive" /\ pot.last_reset = clock /\ clock > 0

\* C17: every successful admin_withdraw, with or without a transfer, empties
\* deposits and zeroes total_amount and leaves game_state, last_reset,
\* randomness, winner, end_game_caller and admin unchanged.
C17_WithdrawFrame ==
  [][Called("admin_withdraw") /\ res'.err = "Ok" =>
       /\ pot'.deposits = <<>> /\ pot'.total_amount = 0
       /\ pot'.game_state = pot.game_state
       /\ pot'.last_reset = pot.last_reset
       /\ pot'.randomness = pot.randomness
       /\ pot'.winner = pot.winner
       /\ pot'.end_game_caller = pot.end_game_caller
       /\ pot'.admin = pot.admin
       /\ res'.xfers = IF lamports[POT] > 0 THEN 1 ELSE 0]_vars

\* admin_withdraw succeeded in a Cooldown that had selected a winner: the
\* ledger is gone, the winner is still recorded.
C17_Witness ==
  /\ res.op = "admin_withdraw" /\ res.err = "Ok"
  /\ pot.game_state = "Cooldown"
  /\ is_some(pot.winner) /\ is_some(pot.end_game_caller)
  /\ pot.deposits = <<>> /\ pot.total_amount = 0

\* C18 as stated: last_reset is the time of the most recent change of
\* game_state; every step that changes game_state sets it to the current time
\* and no other step changes it.
C18_StampOnEveryChange ==
  [][/\ pot'.game_state # pot.game_state => pot'.last_reset = clock
     /\ pot'.game_state = pot.game_state => pot'.last_reset = pot.last_reset]_vars

\* C18 amended: last_reset is set to the current time by each successful
\* start_round, reset_pot_if_no_winner and distribute_rewards; end_round, which
\* changes game_state to Cooldown, and every other step leave it unchanged, so
\* in Cooldown it is still the time the round was started.
C18_StampOnOpenAndClose ==
  [][/\ res'.err = "Ok"
        /\ res'.op \in {"start_round", "reset_pot_if_no_winner", "distribute_rewards"}
          => pot'.last_reset = clock
     /\ ~(res'.err = "Ok"
          /\ res'.op \in {"start_round", "reset_pot_if_no_winner", "distribute_rewards"})
          => pot'.last_reset = pot.last_reset
     /\ Called("end_round") /\ res'.err = "Ok"
          => pot'.game_state # pot.game_state /\ pot'.last_reset = pot.last_reset
     /\ pot'.game_state \in {"Active", "Inactive"} /\ pot'.game_state # pot.game_state
          => pot'.last_reset = clock]_vars

\* end_round moved the round to Cooldown and last_reset is still the earlier
\* start time.
C18_Witness ==
  /\ res.op = "end_round" /\ res.err = "Ok"
  /\ pot.game_state = "Cooldown"
  /\ pot.last_reset < clock /\ pot.last_reset > 0

\* C19: a round in which end_round selected a winner returns to Inactive only
\* by a distribute_rewards that makes its four transfers and raises the
\* balance of the selected winner.
C19_WinnerPaidBeforeInactive ==
  [][pot.game_state = "Cooldown" /\ is_some(pot.winner)
       /\ pot'.game_state = "Inactive"
       => /\ res'.op = "distribute_rewards"
          /\ res'.xfers = 4
          /\ lamports'[unwrap(pot.winner)] > lamports[unwrap(pot.winner)]]_vars

\* C20: the Pot account holds at least total_amount, so the payouts of a
\* distribution, which together are at most total_amount, are covered.
C20_BalanceCoversTotal ==
  lamports[POT] >= pot.total_amount

\* The tight case: the Pot holds exactly the deposits of the open round and
\* nothing more.
C20_Witness ==
  /\ pot.total_amount > 0
  /\ pot.deposits # <<>>
  /\ lamports[POT] = pot.total_amount

=============================================================================
